---- MODULE Spec2Model ----
(***************************************************************************)
(* Coffee-shop resource server: the JWT authorization pipeline of          *)
(* backend/src/auth/auth.py (get_token_auth_header, verify_decode_jwt,     *)
(* check_permissions, requires_auth) and the drink routes of               *)
(* backend/src/api.py that it guards.                                      *)
(*                                                                         *)
(* Python strings are sequences of one-character strings, so that          *)
(* str.split(), str.lower() and list membership are computed, not assumed. *)
(* A Python call either returns a value or raises; both are Result records.*)
(***************************************************************************)
EXTENDS Integers, Sequences, FiniteSets, TLC

VARIABLES pc, headers, permission, token, jwks, now, payload, outcome, log,
          first, drinks, next_id, route, reply

vars == <<pc, headers, permission, token, jwks, now, payload, outcome, log,
          first, drinks, next_id, route, reply>>

----------------------------------------------------------------------------
(* Bounds of the model.                                                    *)

\* longest Authorization value, counted in pieces (words and blanks)
MaxParts == 3
\* largest key set the remote endpoint serves
MaxKeys == 2
\* the clock runs over 0..MaxTime
MaxTime == 2
\* most drinks the store holds
MaxDrinks == 2

----------------------------------------------------------------------------
(* Python values.                                                          *)

\* Python's None, distinct from every string (no string holds this element)
None == <<"None">>

Return(v) == [kind |-> "return", value |-> v]

\* AuthError(error, status_code)
AuthError(code, description, status_code) ==
    [kind |-> "AuthError",
     error |-> [code |-> code, description |-> description],
     status_code |-> status_code]

\* any exception that is not an AuthError
Raise(type) == [kind |-> "exception", type |-> type]

\* werkzeug's abort(status)
Abort(status) == [kind |-> "HTTPException", code |-> status]

Whitespace == {" ", "\t"}

Upper == <<"A", "B", "C", "E", "I", "R", "S">>
Lower == <<"a", "b", "c", "e", "i", "r", "s">>

\* str.lower(), character by character
lower(s) ==
    [i \in 1..Len(s) |->
        IF \E k \in 1..Len(Upper) : Upper[k] = s[i]
        THEN Lower[CHOOSE k \in 1..Len(Upper) : Upper[k] = s[i]]
        ELSE s[i]]

RECURSIVE SplitAcc(_, _, _)
SplitAcc(s, word, parts) ==
    IF s = <<>>
    THEN IF word = <<>> THEN parts ELSE Append(parts, word)
    ELSE IF Head(s) \in Whitespace
         THEN SplitAcc(Tail(s), <<>>,
                       IF word = <<>> THEN parts ELSE Append(parts, word))
         ELSE SplitAcc(Tail(s), Append(word, Head(s)), parts)

\* str.split() with no separator: the maximal runs of non-blank characters
split(s) == SplitAcc(s, <<>>, <<>>)

RECURSIVE Concat(_)
Concat(ss) == IF ss = <<>> THEN <<>> ELSE Head(ss) \o Concat(Tail(ss))

SeqsUpTo(S, n) == UNION {[1..k -> S] : k \in 0..n}

----------------------------------------------------------------------------
(* Configuration, auth.py lines 8-10.                                      *)

AUTH0_DOMAIN == "dev-7l04rrne.us.auth0.com"
ALGORITHMS == {"RS256"}
API_AUDIENCE == "coffeeshop"
\* 'https://' + AUTH0_DOMAIN + '/'
ISSUER == "https://dev-7l04rrne.us.auth0.com/"

----------------------------------------------------------------------------
(* Permission strings, api.py lines 107, 143, 191, 247; '' is the default  *)
(* of requires_auth.                                                       *)

EmptyPermission == <<>>
GetDrinks == <<"g","e","t",":","d","r","i","n","k","s">>
GetDrinksDetail == GetDrinks \o <<"-","d","e","t","a","i","l">>
PostDrinks == <<"p","o","s","t",":","d","r","i","n","k","s">>
PatchDrinks == <<"p","a","t","c","h",":","d","r","i","n","k","s">>
DeleteDrinks == <<"d","e","l","e","t","e",":","d","r","i","n","k","s">>

RoutePermissions == {GetDrinksDetail, PostDrinks, PatchDrinks, DeleteDrinks}
Permissions == RoutePermissions \cup {EmptyPermission}

----------------------------------------------------------------------------
(* Compact tokens.  A token is the string  h h . c c c c c . s  :          *)
(*   header   kid ("-" when the header has no kid), alg                    *)
(*   payload  nbf, exp ("-" when absent, else a time), aud, iss,           *)
(*            permissions ("-" when absent, else an entry of PermissionLists)*)
(*   signature  the modulus of the key pair that signed the token          *)
(* Any other string is not a JWT.                                          *)

KidChars == {"-", "1", "2", "3"}
AlgChars == {"R", "H"}
NbfChars == {"-", "1"}
ExpChars == {"-", "1"}
AudChars == {"c", "x"}
IssChars == {"a", "x"}
PermChars == {"-", "0", "1", "2", "3", "4"}
SigChars == {"1", "2", "3"}

Digits == <<"0", "1", "2", "3">>
TimeOf(c) == (CHOOSE k \in 1..Len(Digits) : Digits[k] = c) - 1

\* the permissions claim a token can carry: none, the barista's, the
\* manager's, one that is only a prefix of a real permission, and the
\* empty string
PermissionLists ==
    [c \in PermChars \ {"-"} |->
        CASE c = "0" -> <<>>
          [] c = "1" -> <<GetDrinksDetail>>
          [] c = "2" -> <<GetDrinksDetail, PostDrinks, PatchDrinks, DeleteDrinks>>
          [] c = "3" -> <<GetDrinks>>
          [] c = "4" -> <<EmptyPermission>>]

Tokens ==
    {<<k, a, ".", n, e, au, is, p, ".", s>> :
        k \in KidChars, a \in AlgChars, n \in NbfChars, e \in ExpChars,
        au \in AudChars, is \in IssChars, p \in PermChars, s \in SigChars}

\* strings that are not a JWT: free text, and a token cut after its payload
Malformed == {<<"x">>, <<"1", "R", ".", "-", "-", "c", "a", "1">>}

\* an unexpired RS256 token of the barista role, signed by key pair 1
ValidToken == <<"1", "R", ".", "-", "-", "c", "a", "1", ".", "1">>

\* the tokens that differ from ValidToken in at most one field
SingleFault ==
    {ValidToken} \cup Malformed
    \cup {t \in Tokens : Cardinality({i \in 1..Len(t) : t[i] # ValidToken[i]}) = 1}

\* three segments, each of them decodable
WellFormed(t) ==
    /\ Len(t) = Len(ValidToken)
    /\ t[1] \in KidChars /\ t[2] \in AlgChars /\ t[3] = "."
    /\ t[4] \in NbfChars /\ t[5] \in ExpChars /\ t[6] \in AudChars
    /\ t[7] \in IssChars /\ t[8] \in PermChars /\ t[9] = "."
    /\ t[10] \in SigChars

\* the token's header segment, as decoded JSON
HeaderOf(t) ==
    LET alg == IF t[2] = "R" THEN "RS256" ELSE "HS256"
    IN  IF t[1] = "-" THEN [alg |-> alg] ELSE [alg |-> alg, kid |-> t[1]]

Opt(name, present, v) == IF present THEN name :> v ELSE <<>>

\* the token's payload segment, as decoded JSON
ClaimsOf(t) ==
    [aud |-> IF t[6] = "c" THEN API_AUDIENCE ELSE "other-api",
     iss |-> IF t[7] = "a" THEN ISSUER ELSE "https://other.example/"]
    @@ Opt("nbf", t[4] # "-", TimeOf(t[4]))
    @@ Opt("exp", t[5] # "-", TimeOf(t[5]))
    @@ Opt("permissions", t[8] # "-", PermissionLists[t[8]])

\* jose.jwt.get_unverified_header
get_unverified_header(t) ==
    IF WellFormed(t) THEN Return(HeaderOf(t)) ELSE Raise("JWTError")

\* jose.jwt.decode(token, key, algorithms, audience, issuer) at time t:
\* the algorithm and the signature first, then the claims in jose's order
\* nbf, exp, aud, iss
jwt_decode(tok, key, algorithms, audience, issuer, t) ==
    IF ~WellFormed(tok) THEN Raise("JWTError")
    ELSE IF HeaderOf(tok).alg \notin algorithms THEN Raise("JWTError")
    ELSE IF tok[10] # key.n THEN Raise("JWTError")
    ELSE LET claims == ClaimsOf(tok)
         IN  IF "nbf" \in DOMAIN claims /\ claims.nbf > t
             THEN Raise("JWTClaimsError")
             ELSE IF "exp" \in DOMAIN claims /\ claims.exp < t
             THEN Raise("ExpiredSignatureError")
             ELSE IF claims.aud # audience THEN Raise("JWTClaimsError")
             ELSE IF claims.iss # issuer THEN Raise("JWTClaimsError")
             ELSE Return(claims)

----------------------------------------------------------------------------
(* The remote key set.                                                     *)

JWK(kid, n) == [kid |-> kid, kty |-> "RSA", use |-> "sig", n |-> n, e |-> "AQAB"]

\* the keys the authority may publish; two of them share a kid
Keys == {JWK("1", "1"), JWK("2", "2"), JWK("1", "2")}

KeySets == SeqsUpTo(Keys, MaxKeys)

\* urlopen(...) and json.loads(jsonurl.read()): the document, or a failure
FetchResults == {Return([keys |-> ks]) : ks \in KeySets} \cup {Raise("URLError")}

----------------------------------------------------------------------------
(* auth.py                                                                 *)

Bearer == <<"B", "e", "a", "r", "e", "r">>
BEARER == <<"B", "E", "A", "R", "E", "R">>
bearer == <<"b", "e", "a", "r", "e", "r">>
Basic == <<"B", "a", "s", "i", "c">>

\* request.headers.get('Authorization', None)
AuthorizationOf(hdrs) ==
    IF "Authorization" \in DOMAIN hdrs THEN hdrs.Authorization ELSE None

\* get_token_auth_header(), reading the request's headers
get_token_auth_header(hdrs) ==
    LET auth == AuthorizationOf(hdrs)
        parts == split(auth)
    IN  IF auth = None \/ auth = <<>>
        THEN AuthError("authorization_header_missing",
                       "Authorization header is expected.", 401)
        ELSE IF parts = <<>>
        THEN Raise("IndexError")
        ELSE IF lower(parts[1]) # bearer
        THEN AuthError("invalid_header",
                       "Authorization header must start with \"Bearer\".", 401)
        ELSE IF Len(parts) = 1
        THEN AuthError("invalid_header", "Token not found.", 401)
        ELSE IF Len(parts) > 2
        THEN AuthError("invalid_header",
                       "Authorization header must be bearer token.", 401)
        ELSE Return(parts[2])

\* x in xs, for a Python list xs: some element equals x
In(x, xs) == \E i \in 1..Len(xs) : xs[i] = x

\* s in x for some element x of xs, as Python tests it between strings:
\* s occurs somewhere inside x
InSubstring(s, xs) ==
    \E i \in 1..Len(xs) :
        \E a \in 0..Len(xs[i]) :
            /\ a + Len(s) <= Len(xs[i])
            /\ SubSeq(xs[i], a + 1, a + Len(s)) = s

\* check_permissions with a containment test in place of list membership
check_permissions_substring(perm, pl) ==
    IF "permissions" \notin DOMAIN pl
    THEN AuthError("invalid_claims", "Permissions not included in JWT.", 400)
    ELSE IF ~InSubstring(perm, pl.permissions)
    THEN AuthError("unauthorized", "Unauthorized.", 403)
    ELSE Return(TRUE)

check_permissions(perm, pl) ==
    IF "permissions" \notin DOMAIN pl
    THEN AuthError("invalid_claims", "Permissions not included in JWT.", 400)
    ELSE IF ~In(perm, pl.permissions)
    THEN AuthError("unauthorized", "Unauthorized.", 403)
    ELSE Return(TRUE)

EmptyDict == [x \in {} |-> x]

\* the scan taking the first key of the set, whatever its kid
ScanKeysFirst(keys, kid, rsa_key) ==
    IF keys = <<>> THEN rsa_key
    ELSE [kty |-> Head(keys).kty, kid |-> Head(keys).kid,
          use |-> Head(keys).use, n |-> Head(keys).n, e |-> Head(keys).e]

\* the loop over jwks['keys']: every key whose kid matches overwrites rsa_key
RECURSIVE ScanKeys(_, _, _)
ScanKeys(keys, kid, rsa_key) ==
    IF keys = <<>> THEN rsa_key
    ELSE ScanKeys(Tail(keys), kid,
                  IF Head(keys).kid = kid
                  THEN [kty |-> Head(keys).kty, kid |-> Head(keys).kid,
                        use |-> Head(keys).use, n |-> Head(keys).n,
                        e |-> Head(keys).e]
                  ELSE rsa_key)

\* the except clauses with the catch-all first
decode_except_all_invalid_header(r) ==
    IF r.kind = "return" THEN r
    ELSE AuthError("invalid_header", "Unable to parse authentication token.", 400)

\* the try/except around jwt.decode
decode_except(r) ==
    IF r.kind = "return" THEN r
    ELSE IF r.type = "ExpiredSignatureError"
    THEN AuthError("token_expired", "Token expired.", 401)
    ELSE IF r.type = "JWTClaimsError"
    THEN AuthError("invalid_claims",
                   "Incorrect claims. Please, check the audience and issuer.", 401)
    ELSE AuthError("invalid_header", "Unable to parse authentication token.", 400)

\* verify_decode_jwt judging the token one tick ahead of the clock
verify_decode_jwt_skewed(tok, fetched, t) ==
    IF fetched.kind # "return" THEN fetched
    ELSE
    LET jwks_doc == fetched.value
        unverified_header == get_unverified_header(tok)
    IN  IF unverified_header.kind # "return" THEN unverified_header
        ELSE IF "kid" \notin DOMAIN unverified_header.value
        THEN AuthError("invalid_header", "Authorization malformed.", 401)
        ELSE
        LET rsa_key == ScanKeys(jwks_doc.keys, unverified_header.value.kid, EmptyDict)
        IN  IF DOMAIN rsa_key # {}
            THEN decode_except(jwt_decode(tok, rsa_key, ALGORITHMS,
                                          API_AUDIENCE, ISSUER, t + 1))
            ELSE AuthError("invalid_header",
                           "Unable to find the appropriate key.", 400)

\* verify_decode_jwt(token), with the outcome of the key fetch and the clock
verify_decode_jwt(tok, fetched, t) ==
    IF fetched.kind # "return" THEN fetched
    ELSE
    LET jwks_doc == fetched.value
        unverified_header == get_unverified_header(tok)
    IN  IF unverified_header.kind # "return" THEN unverified_header
        ELSE IF "kid" \notin DOMAIN unverified_header.value
        THEN AuthError("invalid_header", "Authorization malformed.", 401)
        ELSE
        LET rsa_key == ScanKeys(jwks_doc.keys, unverified_header.value.kid, EmptyDict)
        IN  IF DOMAIN rsa_key # {}
            THEN decode_except(jwt_decode(tok, rsa_key, ALGORITHMS,
                                          API_AUDIENCE, ISSUER, t))
            ELSE AuthError("invalid_header",
                           "Unable to find the appropriate key.", 400)

\* the except clause letting an AuthError of the verifier through
except_reraise(r) ==
    IF r.kind = "return" \/ r.kind = "AuthError" THEN r
    ELSE AuthError("unauthorized", "Permissions not found", 401)

\* the bare except around verify_decode_jwt in wrapper
except_unauthorized(r) ==
    IF r.kind = "return" THEN r
    ELSE AuthError("unauthorized", "Permissions not found", 401)

\* wrapper(*args, **kwargs) of requires_auth(permission): Return(payload)
\* stands for the call f(payload, ...), anything else is raised to Flask
wrapper(perm, hdrs, fetched, t) ==
    LET tok == get_token_auth_header(hdrs)
    IN  IF tok.kind # "return" THEN tok
        ELSE
        LET pl == except_unauthorized(verify_decode_jwt(tok.value, fetched, t))
        IN  IF pl.kind # "return" THEN pl
            ELSE LET chk == check_permissions(perm, pl.value)
                 IN  IF chk.kind # "return" THEN chk ELSE pl

----------------------------------------------------------------------------
(* One invocation of a handler wrapped by requires_auth(permission), stage *)
(* by stage.  log records the calls made, in order.                        *)

NotYet == [kind |-> "none"]

Stages == <<"get_token_auth_header", "urlopen", "verify_decode_jwt",
            "check_permissions", "f">>

\* the pieces an Authorization value is made of, for a token t
Pieces(t) == {<<" ">>, Bearer, BEARER, Basic, t}

GateHeaders ==
    {[Host |-> "localhost"]}
    \cup {[Host |-> "localhost", Authorization |-> Concat(ps)] :
            ps \in UNION {SeqsUpTo(Pieces(t), MaxParts) : t \in SingleFault}}

\* wrapper calling f whatever check_permissions raised
NextStageNoShortCircuit(stage, r) ==
    CASE stage = "get_token_auth_header" ->
            IF r.kind = "return" THEN "urlopen" ELSE "done"
      [] stage = "urlopen" ->
            IF r.kind = "return" THEN "verify_decode_jwt" ELSE "done"
      [] stage = "verify_decode_jwt" ->
            IF r.kind = "return" THEN "check_permissions" ELSE "done"
      [] stage = "check_permissions" -> "f"
      [] stage = "f" -> "done"

\* wrapper fetching the key set again after a failed fetch
NextStageRetry(stage, r) ==
    CASE stage = "get_token_auth_header" ->
            IF r.kind = "return" THEN "urlopen" ELSE "done"
      [] stage = "urlopen" ->
            IF r.kind = "return" THEN "verify_decode_jwt" ELSE "urlopen"
      [] stage = "verify_decode_jwt" ->
            IF r.kind = "return" THEN "check_permissions" ELSE "done"
      [] stage = "check_permissions" ->
            IF r.kind = "return" THEN "f" ELSE "done"
      [] stage = "f" -> "done"

\* the control flow of wrapper: the stage that follows stage, whose call
\* ended as r; a raised exception leaves wrapper
NextStage(stage, r) ==
    CASE stage = "get_token_auth_header" ->
            IF r.kind = "return" THEN "urlopen" ELSE "done"
      [] stage = "urlopen" ->
            IF r.kind = "return" THEN "verify_decode_jwt" ELSE "done"
      [] stage = "verify_decode_jwt" ->
            IF r.kind = "return" THEN "check_permissions" ELSE "done"
      [] stage = "check_permissions" ->
            IF r.kind = "return" THEN "f" ELSE "done"
      [] stage = "f" -> "done"

\* what wrapper has raised or returned once stage ended as r
Outcome(stage, r) == IF NextStage(stage, r) = "done" THEN r ELSE NotYet

InitGate ==
    /\ pc = "idle"
    /\ headers = [Host |-> "localhost"]
    /\ permission = EmptyPermission
    /\ token = None
    /\ jwks = NotYet
    /\ now = 0
    /\ payload = NotYet
    /\ outcome = NotYet
    /\ log = <<>>
    /\ first = NotYet
    /\ drinks = <<>>
    /\ next_id = 1
    /\ route = NotYet
    /\ reply = NotYet

\* a request arrives at a route guarded by requires_auth(perm)
Request ==
    /\ pc = "idle"
    /\ \E hdrs \in GateHeaders, perm \in Permissions :
        /\ headers' = hdrs
        /\ permission' = perm
    /\ pc' = "get_token_auth_header"
    /\ token' = None
    /\ jwks' = NotYet
    /\ payload' = NotYet
    /\ outcome' = NotYet
    /\ log' = <<>>
    /\ UNCHANGED <<now, first, drinks, next_id, route, reply>>

\* token = get_token_auth_header()
GetToken ==
    /\ pc = "get_token_auth_header"
    /\ LET r == get_token_auth_header(headers)
       IN  /\ token' = IF r.kind = "return" THEN r.value ELSE None
           /\ pc' = NextStage(pc, r)
           /\ outcome' = Outcome(pc, r)
    /\ log' = Append(log, pc)
    /\ UNCHANGED <<headers, permission, jwks, now, payload, first, drinks,
                   next_id, route, reply>>

\* the first two statements of verify_decode_jwt: urlopen and json.loads
FetchKeys ==
    /\ pc = "urlopen"
    /\ \E fetched \in FetchResults :
        /\ jwks' = fetched
        /\ pc' = NextStage(pc, fetched)
        /\ outcome' = Outcome(pc, except_unauthorized(fetched))
    /\ log' = Append(log, pc)
    /\ UNCHANGED <<headers, permission, token, now, payload, first, drinks,
                   next_id, route, reply>>

\* the rest of verify_decode_jwt, inside wrapper's try
VerifyToken ==
    /\ pc = "verify_decode_jwt"
    /\ \E t \in now..MaxTime :
        LET r == verify_decode_jwt(token, jwks, t)
        IN  /\ now' = t
            /\ payload' = r
            /\ pc' = NextStage(pc, r)
            /\ outcome' = Outcome(pc, except_unauthorized(r))
    /\ log' = Append(log, pc)
    /\ UNCHANGED <<headers, permission, token, jwks, first, drinks, next_id,
                   route, reply>>

\* check_permissions(permission, payload)
CheckPermissions ==
    /\ pc = "check_permissions"
    /\ LET r == check_permissions(permission, payload.value)
       IN  /\ pc' = NextStage(pc, r)
           /\ outcome' = Outcome(pc, r)
    /\ log' = Append(log, pc)
    /\ UNCHANGED <<headers, permission, token, jwks, now, payload, first,
                   drinks, next_id, route, reply>>

\* return f(payload, *args, **kwargs)
CallHandler ==
    /\ pc = "f"
    /\ pc' = NextStage(pc, payload)
    /\ outcome' = [kind |-> "called", args |-> <<payload.value>>]
    /\ log' = Append(log, pc)
    /\ UNCHANGED <<headers, permission, token, jwks, now, payload, first,
                   drinks, next_id, route, reply>>

NextGate ==
    \/ Request
    \/ GetToken
    \/ FetchKeys
    \/ VerifyToken
    \/ CheckPermissions
    \/ CallHandler

SpecGate == InitGate /\ [][NextGate]_vars

----------------------------------------------------------------------------
(* Properties of the gate, checked under SpecGate.                         *)

IsAuthError(r, code, status) ==
    /\ r.kind = "AuthError"
    /\ r.error.code = code
    /\ r.status_code = status

\* what a fully validated token is, read off the token's fields: a key of
\* the set carries the header's kid and the signing modulus, the algorithm
\* is RS256, the time t lies within nbf..exp, audience and issuer match
Validated(tok, keys, t) ==
    /\ WellFormed(tok)
    /\ tok[1] # "-"
    /\ tok[2] = "R"
    /\ \E i \in 1..Len(keys) : keys[i].kid = tok[1] /\ keys[i].n = tok[10]
    /\ tok[4] = "-" \/ TimeOf(tok[4]) <= t
    /\ tok[5] = "-" \/ TimeOf(tok[5]) >= t
    /\ tok[6] = "c"
    /\ tok[7] = "a"

\* the Authorization value is a Bearer word and one more word, tok
IsBearerOf(hdrs, tok) ==
    /\ AuthorizationOf(hdrs) # None
    /\ LET parts == split(AuthorizationOf(hdrs))
       IN  Len(parts) = 2 /\ lower(parts[1]) = bearer /\ parts[2] = tok

\* C1: the wrapped operation f is invoked only when a token was extracted,
\* the key set was fetched and the token passed every validation against it
\* (key, algorithm, signature, time, audience, issuer), and its permissions
\* claim holds the required permission; f then receives exactly the token's
\* claims, and in no other case is f invoked or a payload handed on.
C1_HandlerOnlyAfterFullValidation ==
    /\ In("f", log) =>
        /\ IsBearerOf(headers, token)
        /\ jwks.kind = "return"
        /\ Validated(token, jwks.value.keys, now)
        /\ "permissions" \in DOMAIN ClaimsOf(token)
        /\ \E i \in 1..Len(ClaimsOf(token).permissions) :
              ClaimsOf(token).permissions[i] = permission
        /\ outcome = [kind |-> "called", args |-> <<ClaimsOf(token)>>]
    /\ outcome.kind = "called" => In("f", log)
    /\ pc = "f" => payload.kind = "return" /\ Len(log) = 4

C1_Witness ==
    /\ pc = "done"
    /\ In("f", log)
    /\ outcome.kind = "called"
    /\ permission = GetDrinksDetail

\* C2: once a token was extracted, any failure of verify_decode_jwt (failed
\* key fetch, unparseable token, missing kid, no matching key, bad
\* signature or algorithm, expired or not yet valid, wrong audience or
\* issuer) leaves the gate with AuthError unauthorized / 'Permissions not
\* found' / 401, never with the verifier's own error.
C2_VerifierFailureIsUnauthorized401 ==
    (/\ pc = "done"
     /\ token # None
     /\ \/ jwks.kind = "exception"
        \/ jwks.kind = "return" /\ ~Validated(token, jwks.value.keys, now))
    => outcome = AuthError("unauthorized", "Permissions not found", 401)

C2_Witness ==
    /\ pc = "done"
    /\ payload.kind = "AuthError"
    /\ payload.error.code = "token_expired"
    /\ outcome = AuthError("unauthorized", "Permissions not found", 401)

\* C3: a request without Authorization header (an empty value counts as
\* none) fails with 401 / authorization_header_missing; a request whose
\* Authorization value has no Bearer (in any case) as its first part, or
\* has a number of parts other than 2, fails with AuthError 401 /
\* invalid_header and nothing else.
C3_MalformedHeaderIsInvalidHeader ==
    pc = "done" =>
        LET auth == AuthorizationOf(headers)
            parts == split(auth)
            missing == auth = None \/ auth = <<>>
        IN  /\ missing =>
                  IsAuthError(outcome, "authorization_header_missing", 401)
            /\ (/\ ~missing
                /\ \/ Len(parts) # 2
                   \/ lower(parts[1]) # bearer)
               => IsAuthError(outcome, "invalid_header", 401)

\* C4: check_permissions has three outcomes: invalid_claims / 400 when the
\* payload has no permissions field, unauthorized / 403 when no element of
\* permissions equals the required permission string, and success when some
\* element equals it exactly; the payload is left as decoded.
C4_CheckPermissionsThreeOutcomes ==
    In("check_permissions", log) =>
        /\ payload.kind = "return"
        /\ payload.value = ClaimsOf(token)
        /\ LET claims == payload.value
               passed == pc = "f" \/ In("f", log)
           IN  /\ "permissions" \notin DOMAIN claims =>
                     ~passed /\ IsAuthError(outcome, "invalid_claims", 400)
               /\ "permissions" \in DOMAIN claims =>
                     IF \E i \in 1..Len(claims.permissions) :
                           claims.permissions[i] = permission
                     THEN passed
                     ELSE ~passed /\ IsAuthError(outcome, "unauthorized", 403)

C4_Witness ==
    /\ In("check_permissions", log)
    /\ permission = EmptyPermission
    /\ "permissions" \in DOMAIN payload.value
    /\ Len(payload.value.permissions) > 0
    /\ IsAuthError(outcome, "unauthorized", 403)

IsPrefix(s, t) == Len(s) <= Len(t) /\ SubSeq(t, 1, Len(s)) = s

\* C10: the calls of one invocation are a prefix of extract, key fetch,
\* verify, permission check, handler, so each happens at most once and in
\* that order, with no retry; the key set is fetched once exactly when
\* extraction succeeded, before the token's header is looked at, and the
\* invocation ends at the first call that fails.
C10_StagesInOrderOnceFailFast ==
    /\ IsPrefix(log, Stages)
    /\ pc = "done" => (In("urlopen", log) <=> token # None)
    /\ payload # NotYet => jwks.kind = "return"
    /\ pc = "done" =>
        Len(log) = IF token = None THEN 1
                   ELSE IF jwks.kind # "return" THEN 2
                   ELSE IF payload.kind # "return" THEN 3
                   ELSE IF outcome.kind = "AuthError" THEN 4
                   ELSE 5

C10_Witness ==
    /\ pc = "done"
    /\ token \in Malformed
    /\ jwks.kind = "return"
    /\ log = SubSeq(Stages, 1, 3)

----------------------------------------------------------------------------
(* verify_decode_jwt on its own: a token is verified, and a token that was *)
(* accepted is verified a second time.  Each call fetches the key set anew *)
(* and reads the clock, which never runs backwards.                        *)

InitVerify ==
    /\ pc = "verify"
    /\ token \in Tokens \cup Malformed
    /\ headers = [Host |-> "localhost"]
    /\ permission = EmptyPermission
    /\ jwks = NotYet
    /\ now = 0
    /\ payload = NotYet
    /\ outcome = NotYet
    /\ log = <<>>
    /\ first = NotYet
    /\ drinks = <<>>
    /\ next_id = 1
    /\ route = NotYet
    /\ reply = NotYet

\* payload = verify_decode_jwt(token)
Verify ==
    /\ pc = "verify"
    /\ \E fetched \in FetchResults, t \in now..MaxTime :
        LET r == verify_decode_jwt(token, fetched, t)
        IN  /\ jwks' = fetched
            /\ now' = t
            /\ payload' = r
            /\ pc' = IF r.kind = "return" THEN "again" ELSE "done"
    /\ UNCHANGED <<headers, permission, token, outcome, log, first, drinks,
                   next_id, route, reply>>

\* verify_decode_jwt(token) once more, on the token just accepted
VerifyAgain ==
    /\ pc = "again"
    /\ \E fetched \in FetchResults, t \in now..MaxTime :
        /\ first' = [jwks |-> jwks, now |-> now, result |-> payload]
        /\ jwks' = fetched
        /\ now' = t
        /\ payload' = verify_decode_jwt(token, fetched, t)
    /\ pc' = "done"
    /\ UNCHANGED <<headers, permission, token, outcome, log, drinks, next_id,
                   route, reply>>

NextVerify ==
    \/ Verify
    \/ VerifyAgain

SpecVerify == InitVerify /\ [][NextVerify]_vars

\* verify_decode_jwt was called and the key set was fetched
Verified == pc \in {"again", "done"} /\ jwks.kind = "return"

\* no key of the fetched set has the modulus that signed the token
SignedByAbsentKey ==
    /\ WellFormed(token)
    /\ \A i \in 1..Len(jwks.value.keys) : jwks.value.keys[i].n # token[10]

\* the key the scan ends with: the last key that has the header's kid
MatchedKey ==
    LET keys == jwks.value.keys
        hits == {i \in 1..Len(keys) : keys[i].kid = token[1]}
    IN  keys[CHOOSE i \in hits : \A j \in hits : j <= i]

\* the header's kid selects a key and the RS256 signature is that key's
CorrectlySigned ==
    /\ WellFormed(token)
    /\ \E i \in 1..Len(jwks.value.keys) : jwks.value.keys[i].kid = token[1]
    /\ token[2] = "R"
    /\ MatchedKey.n = token[10]

Expired == token[5] # "-" /\ TimeOf(token[5]) < now
NotYetValid == token[4] # "-" /\ TimeOf(token[4]) > now
ClaimsMismatch == token[6] # "c" \/ token[7] # "a"

\* C5: with the key set fetched, every failure of verify_decode_jwt is an
\* AuthError of the taxonomy: invalid_header / 401 for a header without
\* kid, invalid_header / 400 for a token that cannot be parsed, and
\* otherwise one of token_expired / 401, invalid_claims / 401,
\* invalid_header / 400; never an exception of another type.
C5_VerifierFailsOnlyWithAuthError ==
    (Verified /\ payload.kind # "return") =>
        /\ payload.kind = "AuthError"
        /\ <<payload.error.code, payload.status_code>> \in
              {<<"invalid_header", 401>>, <<"token_expired", 401>>,
               <<"invalid_claims", 401>>, <<"invalid_header", 400>>}
        /\ ~WellFormed(token) => IsAuthError(payload, "invalid_header", 400)
        /\ (WellFormed(token) /\ token[1] = "-")
              => IsAuthError(payload, "invalid_header", 401)

\* C6 as claimed: every token signed with a key absent from the fetched key
\* set fails with 400 / invalid_header.
C6_AbsentKeyIsInvalidHeader400 ==
    (Verified /\ SignedByAbsentKey)
        => IsAuthError(payload, "invalid_header", 400)

\* C6 amended: a token signed with a key absent from the fetched key set
\* fails with 400 / invalid_header when its header declares a kid and with
\* 401 / invalid_header when it declares none; and a token is accepted only
\* when a key of the set has the header's kid and the signing modulus.
C6_AbsentKeyFailsByKid ==
    Verified =>
        /\ (SignedByAbsentKey /\ token[1] # "-")
              => IsAuthError(payload, "invalid_header", 400)
        /\ (SignedByAbsentKey /\ token[1] = "-")
              => IsAuthError(payload, "invalid_header", 401)
        /\ payload.kind = "return" =>
              \E i \in 1..Len(jwks.value.keys) :
                  /\ jwks.value.keys[i].kid = token[1]
                  /\ jwks.value.keys[i].n = token[10]

C6_Witness ==
    /\ Verified
    /\ SignedByAbsentKey
    /\ \E i \in 1..Len(jwks.value.keys) : jwks.value.keys[i].kid = token[1]
    /\ IsAuthError(payload, "invalid_header", 400)

ValidNow ==
    /\ CorrectlySigned
    /\ ~NotYetValid
    /\ ~Expired
    /\ ~ClaimsMismatch

----------------------------------------------------------------------------
(* The drink store: rows keyed by an id that is never reused.              *)

\* Drink.query.filter(Drink.id == id).one_or_none() found no row
is_none(store, id) == id \notin DOMAIN store

\* Drink.query.filter(Drink.id == id).one_or_none(), when there is a row
one_or_none(store, id) == store[id]

\* Drink(title, recipe).insert(), the row getting the next id
insert(store, id, title, recipe) ==
    (id :> [id |-> id, title |-> title, recipe |-> recipe]) @@ store

\* drink.update() after the row's attributes were assigned
update(store, row) == [i \in DOMAIN store |-> IF i = row.id THEN row ELSE store[i]]

\* drink.delete()
delete(store, id) == [i \in DOMAIN store \ {id} |-> store[i]]

----------------------------------------------------------------------------
(* api.py                                                                  *)

\* json.dumps of None and of a list of ingredient names
json_dumps(v) ==
    IF v = None THEN <<"n", "u", "l", "l">> ELSE <<"[">> \o v \o <<"]">>

\* get_name_and_recipe_from_body(body)
get_name_and_recipe_from_body(body) ==
    [name |-> IF "title" \in DOMAIN body THEN body.title ELSE None,
     recipe |-> IF "recipe" \in DOMAIN body
                THEN json_dumps(IF body.recipe = <<>> THEN None ELSE body.recipe)
                ELSE None]

\* Python truth of a string or None
Truthy(v) == v # None /\ v # <<>>

\* the errorhandlers: the response to what a view raised
errorhandler(r) ==
    CASE r.kind = "HTTPException" ->
            [status |-> r.code, success |-> FALSE, error |-> r.code]
      [] r.kind = "AuthError" ->
            [status |-> r.status_code, success |-> FALSE, error |-> r.status_code]
      [] r.kind = "exception" ->
            [status |-> 500, success |-> FALSE, error |-> 500]

\* jsonify({'success': True, ...})
Ok200 == [status |-> 200, success |-> TRUE, error |-> 0]

\* post_drink(jwt): the response and the store it leaves
post_drink(store, id, body) ==
    LET nr == get_name_and_recipe_from_body(body)
    IN  IF ~Truthy(nr.name) \/ ~Truthy(nr.recipe)
        THEN [reply |-> errorhandler(Abort(400)), drinks |-> store]
        ELSE [reply |-> Ok200, drinks |-> insert(store, id, nr.name, nr.recipe)]

\* patch_drink(jwt, id): a row that is None raises AttributeError inside
\* the try, and the bare except turns every exception into abort(422)
patch_drink(store, id, body) ==
    LET nr == get_name_and_recipe_from_body(body)
        drink == one_or_none(store, id)
    IN  IF nr.name = None /\ nr.recipe = None
        THEN [reply |-> errorhandler(Abort(400)), drinks |-> store]
        ELSE IF is_none(store, id)
        THEN [reply |-> errorhandler(Abort(422)), drinks |-> store]
        ELSE [reply |-> Ok200,
              drinks |-> update(store,
                  [id |-> drink.id,
                   title |-> IF Truthy(nr.name) THEN nr.name ELSE drink.title,
                   recipe |-> IF Truthy(nr.recipe) THEN nr.recipe ELSE drink.recipe])]

\* delete_drink(jwt, id): abort(404) is raised inside the try, and the bare
\* except turns it into abort(422)
delete_drink(store, id) ==
    LET raised == IF is_none(store, id) THEN Abort(404) ELSE NotYet
    IN  IF raised.kind # "none"
        THEN [reply |-> errorhandler(Abort(422)), drinks |-> store]
        ELSE [reply |-> Ok200, drinks |-> delete(store, id)]

----------------------------------------------------------------------------
(* The guarded routes that write the store, each request served whole.     *)

Titles == {<<>>, <<"m", "o", "c", "h", "a">>}
Recipes == {<<>>, <<"m", "i", "l", "k">>}

\* request bodies: JSON objects with or without title and recipe (a request
\* without JSON body is left out)
Bodies ==
    {Opt("title", ht, ti) @@ Opt("recipe", hr, re) :
        ht \in BOOLEAN, ti \in Titles, hr \in BOOLEAN, re \in Recipes}

\* the manager's token, which carries every permission
ManagerToken == [ValidToken EXCEPT ![8] = "2"]

ApiHeaders ==
    {[Host |-> "localhost"]}
    \cup {[Host |-> "localhost", Authorization |-> Bearer \o <<" ">> \o t] :
            t \in {ValidToken, ManagerToken}}

ApiFetchResults == {Return([keys |-> <<JWK("1", "1")>>]), Raise("URLError")}

Ids == 1..(MaxDrinks + 1)

InitApi ==
    /\ pc = "serving"
    /\ headers = [Host |-> "localhost"]
    /\ permission = EmptyPermission
    /\ token = None
    /\ jwks = NotYet
    /\ now = 0
    /\ payload = NotYet
    /\ outcome = NotYet
    /\ log = <<>>
    /\ first = NotYet
    /\ drinks = <<>>
    /\ next_id = 1
    /\ route = NotYet
    /\ reply = NotYet

\* what the gate of a route makes of the requests that can arrive
Gate(perm) ==
    {wrapper(perm, hdrs, fetched, now) :
        hdrs \in ApiHeaders, fetched \in ApiFetchResults}

\* POST /drinks
PostDrink ==
    /\ next_id <= MaxDrinks
    /\ \E auth \in Gate(PostDrinks), body \in Bodies :
        LET done == post_drink(drinks, next_id, body)
        IN  /\ outcome' = auth
            /\ route' = [kind |-> "request", name |-> "POST /drinks",
                         id |-> next_id, found |-> FALSE, body |-> body]
            /\ reply' = IF auth.kind = "return" THEN done.reply
                        ELSE errorhandler(auth)
            /\ drinks' = IF auth.kind = "return" THEN done.drinks ELSE drinks
            /\ next_id' = IF drinks' # drinks THEN next_id + 1 ELSE next_id
    /\ UNCHANGED <<pc, headers, permission, token, jwks, now, payload, log, first>>

\* PATCH /drinks/<id>
PatchDrink ==
    /\ \E auth \in Gate(PatchDrinks), body \in Bodies, id \in Ids :
        LET done == patch_drink(drinks, id, body)
        IN  /\ outcome' = auth
            /\ route' = [kind |-> "request", name |-> "PATCH /drinks/<id>",
                         id |-> id, found |-> id \in DOMAIN drinks,
                         body |-> body]
            /\ reply' = IF auth.kind = "return" THEN done.reply
                        ELSE errorhandler(auth)
            /\ drinks' = IF auth.kind = "return" THEN done.drinks ELSE drinks
    /\ UNCHANGED <<pc, headers, permission, token, jwks, now, payload, log,
                   first, next_id>>

\* DELETE /drinks/<id>
DeleteDrink ==
    /\ \E auth \in Gate(DeleteDrinks), id \in Ids :
        LET done == delete_drink(drinks, id)
        IN  /\ outcome' = auth
            /\ route' = [kind |-> "request", name |-> "DELETE /drinks/<id>",
                         id |-> id, found |-> id \in DOMAIN drinks,
                         body |-> <<>>]
            /\ reply' = IF auth.kind = "return" THEN done.reply
                        ELSE errorhandler(auth)
            /\ drinks' = IF auth.kind = "return" THEN done.drinks ELSE drinks
    /\ UNCHANGED <<pc, headers, permission, token, jwks, now, payload, log,
                   first, next_id>>

NextApi ==
    \/ PostDrink
    \/ PatchDrink
    \/ DeleteDrink

SpecApi == InitApi /\ [][NextApi]_vars

\* C9: PATCH /drinks/<id> (with a title or a recipe in its body) and
\* DELETE /drinks/<id>, sent with a valid token that carries the route's
\* permission and with an id no drink has, are answered with status 404.
C9_MissingDrinkIs404 ==
    (/\ route.kind = "request"
     /\ route.name \in {"PATCH /drinks/<id>", "DELETE /drinks/<id>"}
     /\ outcome.kind = "return"
     /\ ~route.found
     /\ route.name = "PATCH /drinks/<id>" => DOMAIN route.body # {})
    => reply.status = 404

====
